---- MODULE Spec2Model ----
(***************************************************************************)
(* Backend lifecycle management of the ragkit desktop shell               *)
(* (desktop/src-tauri/src/backend.rs, main.rs).                            *)
(*                                                                         *)
(* The process-wide state is the atomic BACKEND_PORT and the mutex-guarded *)
(* BACKEND_CHILD.  start_backend and stop_backend run as separately        *)
(* spawned tasks on a multi-threaded runtime, so their steps interleave at *)
(* every access to that state.  One start_backend call and one             *)
(* stop_backend call may be in flight at the same time; each may be called *)
(* again once it has returned.                                             *)
(*                                                                         *)
(* Beside the lifecycle the module has backend_request as the commands of  *)
(* commands.rs use it, the log task of a sidecar child, and                *)
(* wait_for_backend run against a millisecond clock.                       *)
(***************************************************************************)
EXTENDS Integers, Sequences, FiniteSets, TLC

VARIABLES
    occupied,          \* ports on 127.0.0.1 held by other processes
    debug_assertions,  \* cfg!(debug_assertions): TRUE = development build
    BACKEND_PORT,      \* static AtomicU16, 0 = not running
    BACKEND_CHILD,     \* static Mutex<Option<BackendChild>>: 0 = None, else child id
    lock,              \* holder of the BACKEND_CHILD mutex
    childStatus,       \* OS process of every child spawned so far
    childPort,         \* the --port argument each child was given
    killIssued,        \* children on which stop_backend called kill()
    ready,             \* children whose start call saw /health succeed
    sPc, sCalls,       \* start_backend: position, number of calls made
    sPort, sChild,     \* start_backend locals: port, child
    sRet,              \* start_backend: result of the current/last call
    sSlept,            \* wait_for_backend: the loop has slept at least once
    sScan, sTried,     \* find_available_port: loop variable, candidates bound so far
    tPc, tCalls,       \* stop_backend: position, number of calls made
    tPort,             \* stop_backend local: port read at line 112
    tTook,             \* stop_backend: child taken out of the mutex, 0 = none
    tPost, tKill,      \* stop_backend: outcome of the POST and of kill()
    tTrace,            \* stop_backend: steps performed by the current/last call
    sProbed,           \* wait_for_backend: port of the last GET /health, 0 = none yet
    logState, logLast, \* sidecar log task of each child: position, last event consumed
    rPc, rPort,        \* backend_request: position, port read by get_backend_url
    rEarly,            \* backend_request: start_backend had not returned when it was issued
    rRet,              \* backend_request: result of the last call
    qCmd, qResp,       \* a command of commands.rs and the response its request met
    qRet, qOut,        \* ... the result of backend_request and of the command
    wPc, wElapsed,     \* wait_for_backend with its clock: position, start.elapsed() in ms
    wProbes, wSleeps,  \* ... GETs sent, polling sleeps made
    wLast, wAllStatus, \* ... outcome of the last GET, every GET so far got a failure status
    wRet               \* ... result

vars == <<occupied, debug_assertions, BACKEND_PORT, BACKEND_CHILD, lock,
          childStatus, childPort, killIssued, ready,
          sPc, sCalls, sPort, sChild, sRet, sSlept, sScan, sTried,
          tPc, tCalls, tPort, tTook, tPost, tKill, tTrace,
          sProbed, logState, logLast, rPc, rPort, rEarly, rRet,
          qCmd, qResp, qRet, qOut,
          wPc, wElapsed, wProbes, wSleeps, wLast, wAllStatus, wRet>>

envVars   == <<occupied, debug_assertions>>
startVars == <<sPc, sCalls, sPort, sProbed, sChild, sRet, sSlept, sScan, sTried>>
stopVars  == <<tPc, tCalls, tPort, tTook, tPost, tKill, tTrace>>
childVars == <<childStatus, childPort, killIssued, ready>>
logVars   == <<logState, logLast>>
reqVars   == <<rPc, rPort, rEarly, rRet>>
cmdVars   == <<qCmd, qResp, qRet, qOut>>
probeVars == <<wPc, wElapsed, wProbes, wSleeps, wLast, wAllStatus, wRet>>
sideVars  == <<logVars, reqVars, cmdVars, probeVars>>
lifeVars  == <<BACKEND_PORT, BACKEND_CHILD, lock, childVars, startVars, stopVars>>

(***************************************************************************)
(* Bounds and program constants                                            *)
(***************************************************************************)
MaxCalls == 3          \* start_backend and stop_backend calls made in one run

PortFirst == 8100      \* for port in 8100..8200
PortEnd   == 8200      \* exclusive upper end of the Rust range

Children == 1..MaxCalls

Prefix(k) == PortFirst..(PortFirst + k - 1)

\* Occupancy patterns the lifecycle specification starts from.
EnvBusy == {Prefix(0), Prefix(PortEnd - PortFirst)}

\* Occupancy patterns for the allocator on its own: every prefix of the range,
\* with or without a few further ports inside and just outside the range.
ExtraBusy == {PortFirst - 1, PortFirst + 2, PortEnd - 1, PortEnd}
BusySets  == {Prefix(k) \cup X : k \in 0..(PortEnd - PortFirst), X \in SUBSET ExtraBusy}

Running == {"spawned", "listening"}

\* Ports on which a bind fails: other processes plus our own listening children.
Busy == occupied \cup {childPort[c] : c \in {d \in Children : childStatus[d] = "listening"}}

(***************************************************************************)
(* backend_request and the commands: values                                *)
(***************************************************************************)
\* Status codes a response can carry.
Statuses == {200, 201, 204, 400, 404, 500, 503}

\* response.status().is_success(): 200..=299
is_success(status) == status >= 200 /\ status < 300

\* Display of a StatusCode inside format!("Backend error ({}): {}", status, text).
StatusText(status) ==
    CASE status = 200 -> "200 OK"
      [] status = 201 -> "201 Created"
      [] status = 204 -> "204 No Content"
      [] status = 400 -> "400 Bad Request"
      [] status = 404 -> "404 Not Found"
      [] status = 500 -> "500 Internal Server Error"
      [] status = 503 -> "503 Service Unavailable"

Bodies == {"", "kb not found", "[]"}

\* What request.send().await and the reads of the body can meet.  `transport`
\* is "ok" when a response arrived; `readable` says the body can be read to the
\* end, `decodes` that its text is JSON of the type T the caller asked for.
NoResponse == [transport |-> "none", status |-> 0, body |-> "",
               readable |-> FALSE, decodes |-> FALSE]

TransportErrors == {"connect", "timeout"}

Responses ==
    {[transport |-> t, status |-> 0, body |-> "", readable |-> FALSE, decodes |-> FALSE] :
        t \in TransportErrors}
    \cup {r \in [transport : {"ok"}, status : Statuses, body : Bodies,
                 readable : BOOLEAN, decodes : BOOLEAN] :
            r.decodes => r.body # ""}

\* anyhow!(fmt, args...): the literal pieces of the format string and its arguments.
NoError == [lits |-> <<>>, args |-> <<>>]

\* e.to_string(): the pieces of the format string with the arguments in the holes.
to_string(e) ==
    [i \in 1..(Len(e.lits) + Len(e.args)) |->
        IF i % 2 = 1 THEN e.lits[(i + 1) \div 2] ELSE e.args[i \div 2]]

NoResult == [ok |-> FALSE, value |-> <<>>, err |-> NoError]

Ok(value) == [ok |-> TRUE, value |-> value, err |-> NoError]
Err(lits, args) == [ok |-> FALSE, value |-> <<>>, err |-> [lits |-> lits, args |-> args]]

\* response.text().await.unwrap_or_default()
ResponseText(resp) == IF resp.readable THEN resp.body ELSE ""

\* Variant: the body is decoded before the status is looked at.
backend_request_DecodeFirst(resp) ==
    IF resp.transport # "ok"
    THEN Err(<<"Request failed: ", "">>, <<resp.transport>>)
    ELSE IF ~(resp.readable /\ resp.decodes)
    THEN Err(<<"Failed to parse response: ", "">>, <<"decode">>)
    ELSE IF ~is_success(resp.status)
    THEN Err(<<"Backend error (", "): ", "">>, <<StatusText(resp.status), ResponseText(resp)>>)
    ELSE Ok(<<resp.body>>)

\* backend_request from request.send() on: the outcome for one response.
backend_request(resp) ==
    IF resp.transport # "ok"
    THEN Err(<<"Request failed: ", "">>, <<resp.transport>>)
    ELSE IF ~is_success(resp.status)
    THEN Err(<<"Backend error (", "): ", "">>, <<StatusText(resp.status), ResponseText(resp)>>)
    ELSE IF ~(resp.readable /\ resp.decodes)
    THEN Err(<<"Failed to parse response: ", "">>, <<"decode">>)
    ELSE Ok(<<resp.body>>)

\* The commands of commands.rs and what each does with the decoded value:
\* "health" is health_check, "unit" is .map(|_| ()), "exists" is .map(|r| r.exists).
CommandPost ==
    [health_check |-> "health", list_knowledge_bases |-> "value",
     create_knowledge_base |-> "value", delete_knowledge_base |-> "value",
     add_documents |-> "unit", add_folder |-> "value",
     list_conversations |-> "value", create_conversation |-> "value",
     delete_conversation |-> "value", get_messages |-> "value", query |-> "value",
     get_settings |-> "value", update_settings |-> "value",
     analyze_wizard_profile |-> "value", detect_environment |-> "value",
     set_api_key |-> "unit", has_api_key |-> "exists", delete_api_key |-> "value",
     get_ollama_status |-> "value", list_ollama_models |-> "value",
     get_recommended_models |-> "value", get_ollama_embedding_models |-> "value",
     pull_ollama_model |-> "unit", delete_ollama_model |-> "unit",
     start_ollama_service |-> "unit", get_install_instructions |-> "value"]

Commands == DOMAIN CommandPost

\* What a command returns to the webview: Ok(value) or Err(error).  "OkDown" is
\* the Ok(HealthCheckResponse { ok: false, version: None, error: Some(error) })
\* that health_check makes up.
NoOutcome == [kind |-> "none", value |-> <<>>, error |-> <<>>]

\* Variant: health_check propagates the failure like every other command.
health_check_Propagate(r) ==
    IF r.ok
    THEN [kind |-> "Ok", value |-> r.value, error |-> <<>>]
    ELSE [kind |-> "Err", value |-> <<>>, error |-> to_string(r.err)]

\* match backend_request(GET, "/health", None).await {
\*   Ok(resp) => Ok(resp),
\*   Err(e) => Ok(HealthCheckResponse { ok: false, version: None, error: Some(e.to_string()) }) }
health_check(r) ==
    IF r.ok
    THEN [kind |-> "Ok", value |-> r.value, error |-> <<>>]
    ELSE [kind |-> "OkDown", value |-> <<"ok: false", "version: None">>,
          error |-> to_string(r.err)]

\* backend_request(...).await [.map(...)] .map_err(|e| e.to_string())
proxy_command(post, r) ==
    IF r.ok
    THEN [kind |-> "Ok",
          value |-> CASE post = "unit" -> <<>>
                      [] post = "exists" -> r.value \o <<"exists">>
                      [] OTHER -> r.value,
          error |-> <<>>]
    ELSE [kind |-> "Err", value |-> <<>>, error |-> to_string(r.err)]

Command(cmd, r) ==
    IF CommandPost[cmd] = "health" THEN health_check(r) ELSE proxy_command(CommandPost[cmd], r)

(***************************************************************************)
(* Initial state                                                           *)
(***************************************************************************)
InitState ==
    /\ BACKEND_PORT = 0
    /\ BACKEND_CHILD = 0
    /\ lock = "free"
    /\ childStatus = [c \in Children |-> "none"]
    /\ childPort = [c \in Children |-> 0]
    /\ killIssued = {}
    /\ ready = {}
    /\ sPc = "idle" /\ sCalls = 0 /\ sPort = 0 /\ sChild = 0
    /\ sRet = "none" /\ sSlept = FALSE /\ sScan = 0 /\ sTried = <<>>
    /\ tPc = "idle" /\ tCalls = 0 /\ tPort = 0 /\ tTook = 0
    /\ tPost = "none" /\ tKill = "none" /\ tTrace = <<>>
    /\ sProbed = 0
    /\ logState = [c \in Children |-> "none"] /\ logLast = "none"
    /\ rPc = "idle" /\ rPort = 0 /\ rEarly = FALSE /\ rRet = NoResult
    /\ qCmd = "none" /\ qResp = NoResponse /\ qRet = NoResult /\ qOut = NoOutcome
    /\ wPc = "idle" /\ wElapsed = 0 /\ wProbes = 0 /\ wSleeps = 0
    /\ wLast = "none" /\ wAllStatus = TRUE /\ wRet = "none"

Init == occupied \in EnvBusy /\ debug_assertions \in BOOLEAN /\ InitState

(***************************************************************************)
(* start_backend                                                           *)
(***************************************************************************)
StartIdle == sPc \in {"idle", "done"}
StopIdle  == tPc \in {"idle", "done"}

\* Variant: start_backend returns at once when a handle is already stored.
start_backend_call_Guarded ==
    /\ StartIdle
    /\ BACKEND_CHILD = 0
    /\ sCalls + tCalls < MaxCalls
    /\ sCalls' = sCalls + 1
    /\ sPc' = "find"
    /\ sPort' = 0 /\ sChild' = 0 /\ sRet' = "none" /\ sSlept' = FALSE /\ sProbed' = 0
    /\ sScan' = PortFirst /\ sTried' = <<>>
    /\ UNCHANGED <<envVars, sideVars, BACKEND_PORT, BACKEND_CHILD, lock, childVars, stopVars>>

\* main.rs setup hook (or any later caller) invokes start_backend.
start_backend_call ==
    /\ StartIdle
    /\ sCalls + tCalls < MaxCalls
    /\ sCalls' = sCalls + 1
    /\ sPc' = "find"
    /\ sPort' = 0 /\ sChild' = 0 /\ sRet' = "none" /\ sSlept' = FALSE /\ sProbed' = 0
    /\ sScan' = PortFirst /\ sTried' = <<>>
    /\ UNCHANGED <<envVars, sideVars, BACKEND_PORT, BACKEND_CHILD, lock, childVars, stopVars>>

\* TcpListener::bind(addr).await.is_ok()
Bind(port, busy) == port \notin busy

\* Variant: the range is scanned one port too far.
find_available_port_PastEnd ==
    /\ sPc = "find"
    /\ IF sScan > PortEnd
       THEN /\ sPc' = "done"
            /\ sRet' = "err_no_port"
            /\ UNCHANGED <<sPort, sScan, sTried>>
       ELSE /\ sTried' = Append(sTried, sScan)
            /\ sRet' = sRet
            /\ IF Bind(sScan, Busy)
               THEN /\ sPort' = sScan
                    /\ sPc' = "store_port"
                    /\ sScan' = sScan
               ELSE /\ sScan' = sScan + 1
                    /\ UNCHANGED <<sPort, sPc>>
    /\ UNCHANGED <<envVars, sideVars, BACKEND_PORT, BACKEND_CHILD, lock, childVars,
                   sCalls, sProbed, sChild, sSlept, stopVars>>

\* Variant: the scan starts one port too high.
find_available_port_SkipFirst ==
    /\ sPc = "find"
    /\ IF sScan >= PortEnd
       THEN /\ sPc' = "done"
            /\ sRet' = "err_no_port"
            /\ UNCHANGED <<sPort, sScan, sTried>>
       ELSE IF sScan = PortFirst
            THEN /\ sScan' = sScan + 1
                 /\ UNCHANGED <<sPort, sPc, sRet, sTried>>
            ELSE /\ sTried' = Append(sTried, sScan)
                 /\ sRet' = sRet
                 /\ IF Bind(sScan, Busy)
                    THEN /\ sPort' = sScan
                         /\ sPc' = "store_port"
                         /\ sScan' = sScan
                    ELSE /\ sScan' = sScan + 1
                         /\ UNCHANGED <<sPort, sPc>>
    /\ UNCHANGED <<envVars, sideVars, BACKEND_PORT, BACKEND_CHILD, lock, childVars,
                   sCalls, sProbed, sChild, sSlept, stopVars>>

\* Variant: with the range used up the scan falls back to the first port.
find_available_port_Fallback ==
    /\ sPc = "find"
    /\ IF sScan >= PortEnd
       THEN /\ sPc' = "store_port"
            /\ sPort' = PortFirst
            /\ UNCHANGED <<sRet, sScan, sTried>>
       ELSE /\ sTried' = Append(sTried, sScan)
            /\ sRet' = sRet
            /\ IF Bind(sScan, Busy)
               THEN /\ sPort' = sScan
                    /\ sPc' = "store_port"
                    /\ sScan' = sScan
               ELSE /\ sScan' = sScan + 1
                    /\ UNCHANGED <<sPort, sPc>>
    /\ UNCHANGED <<envVars, sideVars, BACKEND_PORT, BACKEND_CHILD, lock, childVars,
                   sCalls, sProbed, sChild, sSlept, stopVars>>

\* let port = find_available_port().await?;  One pass of
\*   for port in 8100..8200 { if TcpListener::bind(&addr).await.is_ok() { return Ok(port); } }
\* or, with the range used up, Err(anyhow!("No available port found ...")).
find_available_port ==
    /\ sPc = "find"
    /\ IF sScan >= PortEnd
       THEN /\ sPc' = "done"
            /\ sRet' = "err_no_port"
            /\ UNCHANGED <<sPort, sScan, sTried>>
       ELSE /\ sTried' = Append(sTried, sScan)
            /\ sRet' = sRet
            /\ IF Bind(sScan, Busy)
               THEN /\ sPort' = sScan
                    /\ sPc' = "store_port"
                    /\ sScan' = sScan
               ELSE /\ sScan' = sScan + 1
                    /\ UNCHANGED <<sPort, sPc>>
    /\ UNCHANGED <<envVars, sideVars, BACKEND_PORT, BACKEND_CHILD, lock, childVars,
                   sCalls, sProbed, sChild, sSlept, stopVars>>

\* BACKEND_PORT.store(port, Ordering::Relaxed);
start_backend_store_port ==
    /\ sPc = "store_port"
    /\ BACKEND_PORT' = sPort
    /\ sPc' = "spawn"
    /\ UNCHANGED <<envVars, sideVars, BACKEND_CHILD, lock, childVars,
                   sCalls, sProbed, sPort, sChild, sRet, sSlept, sScan, sTried, stopVars>>

\* How the launch can end: Command::spawn() fails (either strategy), or in
\* production app.shell().sidecar("ragkit-backend") already fails.
LaunchOutcomes ==
    IF debug_assertions THEN {"spawned", "err_spawn"}
                        ELSE {"spawned", "err_sidecar", "err_spawn"}

\* Variant: a failed launch is ignored and the call goes on to store and probe.
start_backend_spawn_IgnoreError ==
    /\ sPc = "spawn"
    /\ \E outcome \in LaunchOutcomes :
         IF outcome = "spawned"
         THEN /\ childStatus' = [childStatus EXCEPT ![sCalls] = "spawned"]
              /\ childPort' = [childPort EXCEPT ![sCalls] = sPort]
              /\ logState' = IF debug_assertions THEN logState
                             ELSE [logState EXCEPT ![sCalls] = "consuming"]
              /\ sChild' = sCalls
         ELSE UNCHANGED <<childStatus, childPort, logState, sChild>>
    /\ sPc' = "lock"
    /\ sRet' = sRet
    /\ UNCHANGED <<envVars, logLast, reqVars, cmdVars, probeVars,
                   BACKEND_PORT, BACKEND_CHILD, lock, killIssued, ready,
                   sCalls, sProbed, sPort, sSlept, sScan, sTried, stopVars>>

\* if cfg!(debug_assertions) { start_dev_backend(port).await? }
\* else { start_sidecar_backend(app, port)? }
\* The child gets --port <port>; the sidecar launch also spawns the log task.
start_backend_spawn ==
    /\ sPc = "spawn"
    /\ \E outcome \in LaunchOutcomes :
         IF outcome = "spawned"
         THEN /\ childStatus' = [childStatus EXCEPT ![sCalls] = "spawned"]
              /\ childPort' = [childPort EXCEPT ![sCalls] = sPort]
              /\ logState' = IF debug_assertions THEN logState
                             ELSE [logState EXCEPT ![sCalls] = "consuming"]
              /\ sChild' = sCalls
              /\ sPc' = "lock"
              /\ sRet' = sRet
         ELSE /\ UNCHANGED <<childStatus, childPort, logState, sChild>>
              /\ sPc' = "done"
              /\ sRet' = outcome
    /\ UNCHANGED <<envVars, logLast, reqVars, cmdVars, probeVars,
                   BACKEND_PORT, BACKEND_CHILD, lock, killIssued, ready,
                   sCalls, sProbed, sPort, sSlept, sScan, sTried, stopVars>>

\* let mut guard = BACKEND_CHILD.lock().await;
start_backend_lock ==
    /\ sPc = "lock"
    /\ lock = "free"
    /\ lock' = "start"
    /\ sPc' = "store_child"
    /\ UNCHANGED <<envVars, sideVars, BACKEND_PORT, BACKEND_CHILD, childVars,
                   sCalls, sProbed, sPort, sChild, sRet, sSlept, sScan, sTried, stopVars>>

\* The handle that `*guard = Some(child)` replaces is dropped; a tokio child
\* spawned with kill_on_drop(true) is killed by that drop, a sidecar is not.
DropChild(old, status) ==
    IF old # 0 /\ debug_assertions /\ status[old] \in Running
    THEN [status EXCEPT ![old] = "killed"]
    ELSE status

\* Variant: the guard is not scoped to the block and stays held during the probe.
start_backend_store_child_KeepGuard ==
    /\ sPc = "store_child"
    /\ BACKEND_CHILD' = sChild
    /\ childStatus' = DropChild(BACKEND_CHILD, childStatus)
    /\ lock' = "start"
    /\ sPc' = "probe_check"
    /\ UNCHANGED <<envVars, sideVars, BACKEND_PORT, childPort, killIssued, ready,
                   sCalls, sProbed, sPort, sChild, sRet, sSlept, sScan, sTried, stopVars>>

\* *guard = Some(child); and the guard goes out of scope.
start_backend_store_child ==
    /\ sPc = "store_child"
    /\ BACKEND_CHILD' = sChild
    /\ childStatus' = DropChild(BACKEND_CHILD, childStatus)
    /\ lock' = "free"
    /\ sPc' = "probe_check"
    /\ UNCHANGED <<envVars, sideVars, BACKEND_PORT, childPort, killIssued, ready,
                   sCalls, sProbed, sPort, sChild, sRet, sSlept, sScan, sTried, stopVars>>

(***************************************************************************)
(* wait_for_backend(port, 30 s), called from start_backend                 *)
(***************************************************************************)
\* Variant: on timeout the probe ends the child and clears the handle itself.
wait_for_backend_check_AutoKill ==
    /\ sPc = "probe_check"
    /\ \E expired \in BOOLEAN :
         /\ expired => sSlept
         /\ IF expired
            THEN /\ sPc' = "done"
                 /\ sRet' = "err_timeout"
                 /\ BACKEND_CHILD' = 0
                 /\ childStatus' = [childStatus EXCEPT ![sChild] = "killed"]
            ELSE /\ sPc' = "probe_get"
                 /\ sRet' = sRet
                 /\ UNCHANGED <<BACKEND_CHILD, childStatus>>
    /\ UNCHANGED <<envVars, sideVars, BACKEND_PORT, lock, childPort, killIssued, ready,
                   sCalls, sProbed, sPort, sChild, sSlept, sScan, sTried, stopVars>>

\* while start.elapsed() < timeout { ... }  Err(anyhow!("Backend failed to respond ..."))
\* The clock is read here only; 30 s cannot have passed before the first sleep.
wait_for_backend_check ==
    /\ sPc = "probe_check"
    /\ \E expired \in BOOLEAN :
         /\ expired => sSlept
         /\ IF expired
            THEN /\ sPc' = "done"
                 /\ sRet' = "err_timeout"
            ELSE /\ sPc' = "probe_get"
                 /\ sRet' = sRet
    /\ UNCHANGED <<envVars, sideVars, BACKEND_PORT, BACKEND_CHILD, lock, childVars,
                   sCalls, sProbed, sPort, sChild, sSlept, sScan, sTried, stopVars>>

\* Some process answers GET /health on `port` with a success status.
HealthUp(port) == \E c \in Children : childStatus[c] = "listening" /\ childPort[c] = port

\* Variant: the probe asks get_backend_url() for its target, not its own port.
wait_for_backend_get_StoredPort ==
    /\ sPc = "probe_get"
    /\ \E success \in BOOLEAN :
         /\ success => HealthUp(BACKEND_PORT)
         /\ IF success
            THEN /\ sPc' = "return_ok"
                 /\ ready' = ready \cup {sChild}
            ELSE /\ sPc' = "probe_sleep"
                 /\ ready' = ready
    /\ sProbed' = BACKEND_PORT
    /\ UNCHANGED <<envVars, sideVars, BACKEND_PORT, BACKEND_CHILD, lock, childStatus, childPort,
                   killIssued, sCalls, sPort, sChild, sRet, sSlept, sScan, sTried, stopVars>>

\* let health_url = format!("http://127.0.0.1:{}/health", port);
\* match client.get(&health_url).send().await
\*   Ok(resp) if resp.status().is_success() => return Ok(()),   _ => sleep
wait_for_backend_get ==
    /\ sPc = "probe_get"
    /\ \E success \in BOOLEAN :
         /\ success => HealthUp(sPort)
         /\ IF success
            THEN /\ sPc' = "return_ok"
                 /\ ready' = ready \cup {sChild}
            ELSE /\ sPc' = "probe_sleep"
                 /\ ready' = ready
    /\ sProbed' = sPort
    /\ UNCHANGED <<envVars, sideVars, BACKEND_PORT, BACKEND_CHILD, lock, childStatus, childPort,
                   killIssued, sCalls, sPort, sChild, sRet, sSlept, sScan, sTried, stopVars>>

\* sleep(Duration::from_millis(250)).await
wait_for_backend_sleep ==
    /\ sPc = "probe_sleep"
    /\ sPc' = "probe_check"
    /\ sSlept' = TRUE
    /\ UNCHANGED <<envVars, sideVars, BACKEND_PORT, BACKEND_CHILD, lock, childVars,
                   sCalls, sProbed, sPort, sChild, sRet, sScan, sTried, stopVars>>

\* tracing::info!("Backend started successfully ..."); Ok(())
start_backend_return ==
    /\ sPc = "return_ok"
    /\ sPc' = "done"
    /\ sRet' = "ok"
    /\ UNCHANGED <<envVars, sideVars, BACKEND_PORT, BACKEND_CHILD, lock, childVars,
                   sCalls, sProbed, sPort, sChild, sSlept, sScan, sTried, stopVars>>

(***************************************************************************)
(* stop_backend                                                            *)
(***************************************************************************)
\* main.rs CloseRequested hook (or any later caller) invokes stop_backend.
stop_backend_call ==
    /\ StopIdle
    /\ sCalls + tCalls < MaxCalls
    /\ tCalls' = tCalls + 1
    /\ tPc' = "read"
    /\ tPort' = 0 /\ tTook' = 0 /\ tPost' = "none" /\ tKill' = "none" /\ tTrace' = <<>>
    /\ UNCHANGED <<envVars, sideVars, BACKEND_PORT, BACKEND_CHILD, lock, childVars, startVars>>

\* Variant: with port 0 nothing is taken to be running and the call returns.
stop_backend_read_EarlyReturn ==
    /\ tPc = "read"
    /\ tPort' = BACKEND_PORT
    /\ tPc' = IF BACKEND_PORT > 0 THEN "post" ELSE "done"
    /\ UNCHANGED <<envVars, sideVars, BACKEND_PORT, BACKEND_CHILD, lock, childVars, startVars,
                   tCalls, tTook, tPost, tKill, tTrace>>

\* let port = BACKEND_PORT.load(Ordering::Relaxed); if port > 0 { ... }
stop_backend_read ==
    /\ tPc = "read"
    /\ tPort' = BACKEND_PORT
    /\ tPc' = IF BACKEND_PORT > 0 THEN "post" ELSE "lock"
    /\ UNCHANGED <<envVars, sideVars, BACKEND_PORT, BACKEND_CHILD, lock, childVars, startVars,
                   tCalls, tTook, tPost, tKill, tTrace>>

\* Outcomes of building the client and of client.post(&shutdown_url).send().await
PostOutcomes == {"no_client", "success", "error_status", "conn_failed", "timeout"}

PostPossible(outcome, port) ==
    outcome \in {"success", "error_status"} => (HealthUp(port) \/ port \in occupied)

\* Variant: the grace sleep is left out.
stop_backend_post_NoGrace ==
    /\ tPc = "post"
    /\ \E outcome \in PostOutcomes :
         /\ PostPossible(outcome, tPort)
         /\ tPost' = outcome
    /\ tTrace' = Append(tTrace, "post")
    /\ tPc' = "lock"
    /\ UNCHANGED <<envVars, sideVars, BACKEND_PORT, BACKEND_CHILD, lock, childVars, startVars,
                   tCalls, tPort, tTook, tKill>>

\* if let Ok(client) = Client::builder()...build() { let _ = client.post(..).send().await; }
stop_backend_post ==
    /\ tPc = "post"
    /\ \E outcome \in PostOutcomes :
         /\ PostPossible(outcome, tPort)
         /\ tPost' = outcome
    /\ tTrace' = Append(tTrace, "post")
    /\ tPc' = "sleep"
    /\ UNCHANGED <<envVars, sideVars, BACKEND_PORT, BACKEND_CHILD, lock, childVars, startVars,
                   tCalls, tPort, tTook, tKill>>

\* sleep(Duration::from_millis(500)).await;
stop_backend_sleep ==
    /\ tPc = "sleep"
    /\ tTrace' = Append(tTrace, "sleep")
    /\ tPc' = "lock"
    /\ UNCHANGED <<envVars, sideVars, BACKEND_PORT, BACKEND_CHILD, lock, childVars, startVars,
                   tCalls, tPort, tTook, tPost, tKill>>

\* let mut guard = BACKEND_CHILD.lock().await;
stop_backend_lock ==
    /\ tPc = "lock"
    /\ lock = "free"
    /\ lock' = "stop"
    /\ tPc' = "kill"
    /\ UNCHANGED <<envVars, sideVars, BACKEND_PORT, BACKEND_CHILD, childVars, startVars,
                   tCalls, tPort, tTook, tPost, tKill, tTrace>>

\* c.kill() / c.kill().await with its result: a running child ends when it succeeds.
KillChild(c, ok, status) ==
    IF ok /\ status[c] \in Running THEN [status EXCEPT ![c] = "killed"] ELSE status

\* Variant: the handle is looked at but left in the mutex.
stop_backend_kill_NoTake ==
    /\ tPc = "kill"
    /\ IF BACKEND_CHILD # 0
       THEN \E ok \in BOOLEAN :
              /\ tTook' = BACKEND_CHILD
              /\ tKill' = IF ok THEN "ok" ELSE "err"
              /\ childStatus' = KillChild(BACKEND_CHILD, ok, childStatus)
              /\ killIssued' = killIssued \cup {BACKEND_CHILD}
              /\ tTrace' = tTrace \o <<"take", "kill">>
       ELSE /\ tTrace' = Append(tTrace, "take")
            /\ UNCHANGED <<tTook, tKill, childStatus, killIssued>>
    /\ tPc' = "store"
    /\ UNCHANGED <<envVars, sideVars, BACKEND_PORT, BACKEND_CHILD, lock, childPort, ready, startVars,
                   tCalls, tPort, tPost>>

\* Variant: a failed kill is propagated and ends stop_backend early.
stop_backend_kill_Propagate ==
    /\ tPc = "kill"
    /\ IF BACKEND_CHILD # 0
       THEN \E ok \in BOOLEAN :
              /\ tTook' = BACKEND_CHILD
              /\ tKill' = IF ok THEN "ok" ELSE "err"
              /\ childStatus' = KillChild(BACKEND_CHILD, ok, childStatus)
              /\ killIssued' = killIssued \cup {BACKEND_CHILD}
              /\ tTrace' = tTrace \o <<"take", "kill">>
              /\ tPc' = IF ok THEN "store" ELSE "done"
              /\ lock' = IF ok THEN lock ELSE "free"
       ELSE /\ tTrace' = Append(tTrace, "take")
            /\ tPc' = "store"
            /\ UNCHANGED <<tTook, tKill, childStatus, killIssued, lock>>
    /\ BACKEND_CHILD' = 0
    /\ UNCHANGED <<envVars, sideVars, BACKEND_PORT, childPort, ready, startVars,
                   tCalls, tPort, tPost>>

\* if let Some(child) = guard.take() { match child { Sidecar(c) => { let _ = c.kill(); }
\*                                                   Process(mut c) => { let _ = c.kill().await; } } }
stop_backend_kill ==
    /\ tPc = "kill"
    /\ IF BACKEND_CHILD # 0
       THEN \E ok \in BOOLEAN :
              /\ tTook' = BACKEND_CHILD
              /\ tKill' = IF ok THEN "ok" ELSE "err"
              /\ childStatus' = KillChild(BACKEND_CHILD, ok, childStatus)
              /\ killIssued' = killIssued \cup {BACKEND_CHILD}
              /\ tTrace' = tTrace \o <<"take", "kill">>
       ELSE /\ tTrace' = Append(tTrace, "take")
            /\ UNCHANGED <<tTook, tKill, childStatus, killIssued>>
    /\ BACKEND_CHILD' = 0
    /\ tPc' = "store"
    /\ UNCHANGED <<envVars, sideVars, BACKEND_PORT, lock, childPort, ready, startVars,
                   tCalls, tPort, tPost>>

\* BACKEND_PORT.store(0, Ordering::Relaxed); the guard is dropped on return.
stop_backend_store ==
    /\ tPc = "store"
    /\ BACKEND_PORT' = 0
    /\ lock' = "free"
    /\ tTrace' = Append(tTrace, "reset")
    /\ tPc' = "done"
    /\ UNCHANGED <<envVars, sideVars, BACKEND_CHILD, childVars, startVars,
                   tCalls, tPort, tTook, tPost, tKill>>

(***************************************************************************)
(* The child process (external)                                            *)
(***************************************************************************)
\* The backend binds its --port and starts serving.
child_listen ==
    \E c \in Children :
      /\ childStatus[c] = "spawned"
      /\ childPort[c] \notin Busy
      /\ childStatus' = [childStatus EXCEPT ![c] = "listening"]
      /\ UNCHANGED <<envVars, sideVars, BACKEND_PORT, BACKEND_CHILD, lock, childPort, killIssued, ready,
                     startVars, stopVars>>

\* The backend exits by itself: a crash, a failed bind, or after POST /shutdown.
child_exit ==
    \E c \in Children :
      /\ childStatus[c] \in Running
      /\ childStatus' = [childStatus EXCEPT ![c] = "exited"]
      /\ UNCHANGED <<envVars, sideVars, BACKEND_PORT, BACKEND_CHILD, lock, childPort, killIssued, ready,
                     startVars, stopVars>>

(***************************************************************************)
(* The log task of a sidecar child                                         *)
(***************************************************************************)
\* What rx.recv().await yields: a CommandEvent, or None ("Closed") once the
\* channel is closed.  "Other" is any variant caught by `_ => {}`.
LogEvents == {"Stdout", "Stderr", "Terminated", "Error", "Other", "Closed"}

\* Variant: on Terminated the task clears the stored port and handle.
log_recv_ClearOnTerminated ==
    \E c \in Children : \E event \in LogEvents :
        /\ logState[c] = "consuming"
        /\ event \in {"Terminated", "Closed"} => childStatus[c] \in {"exited", "killed"}
        /\ logLast' = event
        /\ logState' = [logState EXCEPT ![c] =
                            IF event \in {"Terminated", "Error", "Closed"}
                            THEN "ended" ELSE "consuming"]
        /\ IF event = "Terminated" /\ BACKEND_CHILD = c
           THEN BACKEND_CHILD' = 0 /\ BACKEND_PORT' = 0
           ELSE UNCHANGED <<BACKEND_CHILD, BACKEND_PORT>>
        /\ UNCHANGED <<envVars, lock, childVars, startVars, stopVars,
                       reqVars, cmdVars, probeVars>>

\* Variant: the Error arm logs and does not break.
log_recv_ContinueOnError ==
    \E c \in Children : \E event \in LogEvents :
        /\ logState[c] = "consuming"
        /\ event \in {"Terminated", "Closed"} => childStatus[c] \in {"exited", "killed"}
        /\ logLast' = event
        /\ logState' = [logState EXCEPT ![c] =
                            IF event \in {"Terminated", "Closed"}
                            THEN "ended" ELSE "consuming"]
        /\ UNCHANGED <<envVars, lifeVars, reqVars, cmdVars, probeVars>>

\* while let Some(event) = rx.recv().await { match event {
\*   Stdout(line) => info!, Stderr(line) => warn!,
\*   Terminated(payload) => { info!; break }, Error(err) => { error!; break }, _ => {} } }
log_recv ==
    \E c \in Children : \E event \in LogEvents :
        /\ logState[c] = "consuming"
        /\ event \in {"Terminated", "Closed"} => childStatus[c] \in {"exited", "killed"}
        /\ logLast' = event
        /\ logState' = [logState EXCEPT ![c] =
                            IF event \in {"Terminated", "Error", "Closed"}
                            THEN "ended" ELSE "consuming"]
        /\ UNCHANGED <<envVars, lifeVars, reqVars, cmdVars, probeVars>>

(***************************************************************************)
(* backend_request, issued by a command while the lifecycle runs           *)
(***************************************************************************)
\* let url = format!("{}{}", get_backend_url(), path);
\* get_backend_url: BACKEND_PORT.load(Ordering::Relaxed), no lock taken.
backend_request_url ==
    /\ rPc \in {"idle", "done"}
    /\ rPort' = BACKEND_PORT
    /\ rEarly' = (sPc # "done")
    /\ rRet' = NoResult
    /\ rPc' = "send"
    /\ UNCHANGED <<envVars, lifeVars, logVars, cmdVars, probeVars>>

\* Responses a request to http://127.0.0.1:<port> can meet: nothing listens on
\* port 0 or on the port of a child that is not (or no longer) listening.
ResponsesAt(port) ==
    IF HealthUp(port)
    THEN {r \in Responses : r.transport = "ok" => (/\ r.status \in {200, 500}
                                                   /\ r.body = "[]" /\ r.readable)}
    ELSE {r \in Responses : r.transport = "connect"}

\* request.send().await ... response.json::<T>().await
backend_request_send ==
    /\ rPc = "send"
    /\ \E resp \in ResponsesAt(rPort) : rRet' = backend_request(resp)
    /\ rPc' = "done"
    /\ UNCHANGED <<envVars, lifeVars, logVars, cmdVars, probeVars, rPort, rEarly>>

(***************************************************************************)
(* wait_for_backend(port, timeout) with its clock.  Time is in ms and      *)
(* passes only inside the awaits of the loop: the GET and the sleep.       *)
(***************************************************************************)
TimeoutMs    == 30000  \* wait_for_backend(port, Duration::from_secs(30))
PollMs       == 250    \* sleep(Duration::from_millis(250))
GetTimeoutMs == 2000   \* Client::builder().timeout(Duration::from_secs(2))

\* How client.get(&health_url).send().await can end: a success status, another
\* status, a connection error, or the per-request timeout.
GetOutcomes == {"success", "status", "connect", "timeout"}

\* Time one GET takes: the whole request timeout when it times out, otherwise
\* some latency below it.
Latencies == {0, PollMs, 2 * PollMs}
GetTimes(outcome) == IF outcome = "timeout" THEN {GetTimeoutMs} ELSE Latencies

\* let client = reqwest::Client::builder().timeout(...).build()?;
\* let start = std::time::Instant::now();
wait_for_backend_timed_call ==
    /\ wPc = "idle"
    /\ \E built \in BOOLEAN :
         IF built
         THEN wPc' = "check" /\ wRet' = "none"
         ELSE wPc' = "done" /\ wRet' = "err_client"
    /\ wElapsed' = 0 /\ wProbes' = 0 /\ wSleeps' = 0
    /\ wLast' = "none" /\ wAllStatus' = TRUE
    /\ UNCHANGED <<envVars, lifeVars, logVars, reqVars, cmdVars>>

\* Variant: the deadline test lets the loop run once more at exactly the deadline.
wait_for_backend_timed_check_Inclusive ==
    /\ wPc = "check"
    /\ IF wElapsed <= TimeoutMs
       THEN /\ wPc' = "get"
            /\ wRet' = wRet
       ELSE /\ wPc' = "done"
            /\ wRet' = "err_timeout"
    /\ UNCHANGED <<envVars, lifeVars, logVars, reqVars, cmdVars,
                   wElapsed, wProbes, wSleeps, wLast, wAllStatus>>

\* while start.elapsed() < timeout { ... }  Err(anyhow!("Backend failed to respond ..."))
wait_for_backend_timed_check ==
    /\ wPc = "check"
    /\ IF wElapsed < TimeoutMs
       THEN /\ wPc' = "get"
            /\ wRet' = wRet
       ELSE /\ wPc' = "done"
            /\ wRet' = "err_timeout"
    /\ UNCHANGED <<envVars, lifeVars, logVars, reqVars, cmdVars,
                   wElapsed, wProbes, wSleeps, wLast, wAllStatus>>

\* Variant: any response, whatever its status, counts as ready.
wait_for_backend_timed_get_AnyResponse ==
    /\ wPc = "get"
    /\ \E outcome \in GetOutcomes : \E d \in GetTimes(outcome) :
         /\ wElapsed' = wElapsed + d
         /\ wLast' = outcome
         /\ wAllStatus' = (wAllStatus /\ outcome = "status")
         /\ IF outcome \in {"success", "status"}
            THEN /\ wPc' = "done"
                 /\ wRet' = "ok"
            ELSE /\ wPc' = "sleep"
                 /\ wRet' = wRet
    /\ wProbes' = wProbes + 1
    /\ UNCHANGED <<envVars, lifeVars, logVars, reqVars, cmdVars, wSleeps>>

\* match client.get(&health_url).send().await {
\*   Ok(resp) if resp.status().is_success() => return Ok(()),
\*   _ => sleep(...) }
wait_for_backend_timed_get ==
    /\ wPc = "get"
    /\ \E outcome \in GetOutcomes : \E d \in GetTimes(outcome) :
         /\ wElapsed' = wElapsed + d
         /\ wLast' = outcome
         /\ wAllStatus' = (wAllStatus /\ outcome = "status")
         /\ IF outcome = "success"
            THEN /\ wPc' = "done"
                 /\ wRet' = "ok"
            ELSE /\ wPc' = "sleep"
                 /\ wRet' = wRet
    /\ wProbes' = wProbes + 1
    /\ UNCHANGED <<envVars, lifeVars, logVars, reqVars, cmdVars, wSleeps>>

\* sleep(Duration::from_millis(250)).await
wait_for_backend_timed_sleep ==
    /\ wPc = "sleep"
    /\ wPc' = "check"
    /\ wElapsed' = wElapsed + PollMs
    /\ wSleeps' = wSleeps + 1
    /\ UNCHANGED <<envVars, lifeVars, logVars, reqVars, cmdVars,
                   wProbes, wLast, wAllStatus, wRet>>

(***************************************************************************)
(* A command of commands.rs, from the response its request meets           *)
(***************************************************************************)
\* The webview invokes #[tauri::command] pub async fn <cmd>(...).
command_invoke ==
    /\ qCmd = "none" \/ qResp # NoResponse
    /\ \E cmd \in Commands : qCmd' = cmd
    /\ qResp' = NoResponse /\ qRet' = NoResult /\ qOut' = NoOutcome
    /\ UNCHANGED <<envVars, lifeVars, logVars, reqVars, probeVars>>

\* backend_request(...).await ends and the command makes its return value.
command_return ==
    /\ qCmd # "none" /\ qResp = NoResponse
    /\ \E resp \in Responses :
         /\ qResp' = resp
         /\ qRet' = backend_request(resp)
         /\ qOut' = Command(qCmd, backend_request(resp))
    /\ qCmd' = qCmd
    /\ UNCHANGED <<envVars, lifeVars, logVars, reqVars, probeVars>>

(***************************************************************************)
(* Specifications                                                          *)
(***************************************************************************)
Steps ==
    \/ find_available_port
    \/ start_backend_store_port
    \/ start_backend_spawn
    \/ start_backend_lock
    \/ start_backend_store_child
    \/ wait_for_backend_check
    \/ wait_for_backend_get
    \/ wait_for_backend_sleep
    \/ start_backend_return
    \/ stop_backend_read
    \/ stop_backend_post
    \/ stop_backend_sleep
    \/ stop_backend_lock
    \/ stop_backend_kill
    \/ stop_backend_store
    \/ child_listen
    \/ child_exit

\* start_backend and stop_backend run as independent tasks.
Next == start_backend_call \/ stop_backend_call \/ Steps

Spec == Init /\ [][Next]_vars

\* A call is made only when no other call is in flight.
start_backend_call_seq == StopIdle /\ start_backend_call
stop_backend_call_seq  == StartIdle /\ stop_backend_call

NextSeq == start_backend_call_seq \/ stop_backend_call_seq \/ Steps

SpecSeq == Init /\ [][NextSeq]_vars

StopNext ==
    \/ stop_backend_read \/ stop_backend_post \/ stop_backend_sleep
    \/ stop_backend_lock \/ stop_backend_kill \/ stop_backend_store

\* The runtime keeps polling a spawned task: every await of stop_backend ends
\* (the POST has a 5 s timeout, the sleep is 500 ms), and start_backend holds the
\* mutex for one assignment only.
SpecFair == Spec /\ WF_vars(StopNext) /\ WF_vars(start_backend_store_child)

\* find_available_port on its own, over the occupancy patterns of BusySets:
\* a start_backend call followed up to the point where the port is known.
InitPort == occupied \in BusySets /\ debug_assertions = FALSE /\ InitState

NextPort == start_backend_call \/ find_available_port

SpecPort == InitPort /\ [][NextPort]_vars

\* wait_for_backend on its own, against every sequence of probe outcomes.
InitProbe == occupied = {} /\ debug_assertions = FALSE /\ InitState

NextProbe ==
    \/ wait_for_backend_timed_call
    \/ wait_for_backend_timed_check
    \/ wait_for_backend_timed_get
    \/ wait_for_backend_timed_sleep

SpecProbe == InitProbe /\ [][NextProbe]_vars

\* The task running wait_for_backend is polled until it returns.
SpecProbeFair == SpecProbe /\ WF_vars(NextProbe)

\* The commands on their own, over every command and response.
NextCommand == command_invoke \/ command_return

SpecCommand == InitProbe /\ [][NextCommand]_vars

\* The application as main.rs wires it: start_backend from the setup hook,
\* stop_backend from the close request, commands and the log task meanwhile.
start_backend_call_once == sCalls = 0 /\ start_backend_call
stop_backend_call_once  == tCalls = 0 /\ stop_backend_call

NextApp ==
    \/ start_backend_call_once
    \/ stop_backend_call_once
    \/ Steps
    \/ log_recv
    \/ backend_request_url
    \/ backend_request_send

SpecApp == Init /\ [][NextApp]_vars

(***************************************************************************)
(* Properties                                                              *)
(***************************************************************************)
StartReturns == sPc # "done" /\ sPc' = "done"
StopReturns  == tPc # "done" /\ tPc' = "done"
StopStep     == tPc' # tPc

IsPrefix(a, b) == Len(a) <= Len(b) /\ SubSeq(b, 1, Len(a)) = a

\* C1: whenever start_backend returns Ok, BACKEND_PORT is nonzero and is the port
\* whose GET /health succeeded earlier in the same call.  Stated for the calls
\* whose child is still running and has never been the target of a kill.
C1_StartOkPortStored ==
    [][(StartReturns /\ sRet' = "ok" /\ childStatus[sChild] \in Running
          /\ sChild \notin killIssued)
         => (BACKEND_PORT' # 0 /\ BACKEND_PORT' = sPort)]_vars

\* C2: in every reachable state BACKEND_PORT is nonzero only if a child handle is
\* stored and that child has passed the readiness probe.
C2_PortOnlyWhenReady ==
    BACKEND_PORT # 0 => (BACKEND_CHILD # 0 /\ BACKEND_CHILD \in ready)

\* C3: stop_backend never reads a nonzero port while no handle is stored, and
\* never finds a stored handle when the port it read was 0.
C3_StopSeesWholePair ==
    [][/\ (tPc = "read" /\ tPc' # "read") => (BACKEND_PORT # 0 => BACKEND_CHILD # 0)
       /\ (tPc = "kill" /\ tPc' # "kill" /\ BACKEND_CHILD # 0) => tPort # 0]_vars

\* C4: after one start_backend and one stop_backend have both completed, no handle
\* is stored, every spawned child has been killed by stop and the port is 0.
\* Stated for the runs in which start spawned a child and stop's reset of the
\* port came after start's store of it (the port is 0 at the end).
C4_StartStopLeavesNothing ==
    (sCalls = 1 /\ tCalls = 1 /\ sPc = "done" /\ tPc = "done"
       /\ sChild # 0 /\ BACKEND_PORT = 0)
      => /\ BACKEND_CHILD = 0
         /\ \A c \in Children : childStatus[c] # "none" => c \in killIssued

\* C5: stop_backend is idempotent: every invocation ends with port 0 and no handle
\* stored, and a step of stop_backend taken when the port is 0 and no handle is
\* stored (never started, or already stopped) changes neither of them and touches
\* no child.
C5_StopIdempotent ==
    [][StopStep =>
         /\ StopReturns => (BACKEND_PORT' = 0 /\ BACKEND_CHILD' = 0)
         /\ (BACKEND_PORT = 0 /\ BACKEND_CHILD = 0)
              => UNCHANGED <<BACKEND_PORT, BACKEND_CHILD, childStatus, killIssued>>]_vars

C5_StoppedTwice ==
    /\ sCalls = 1 /\ sPc = "done" /\ sRet = "ok"
    /\ tCalls = 2 /\ tPc = "done" /\ tPort = 0 /\ tTook = 0
    /\ sChild \in killIssued
    /\ BACKEND_PORT = 0 /\ BACKEND_CHILD = 0

\* The steps of a stop_backend call that read a nonzero port, in order.
StopSteps(took) ==
    <<"post", "sleep", "take">> \o (IF took # 0 THEN <<"kill">> ELSE <<>>) \o <<"reset">>

\* C6: a stop_backend call that read a nonzero port performs POST /shutdown, then
\* the grace sleep, then take-and-kill, then the port reset, in this order and
\* whatever the POST's outcome; the kill never comes before the POST and the sleep.
C6_StopOrder ==
    (tPort # 0) =>
       /\ tPc = "done" => tTrace = StopSteps(tTook)
       /\ tPc # "done" => IsPrefix(tTrace, StopSteps(tTook))
       /\ tPc \in {"lock", "kill"} => tTrace = <<"post", "sleep">>
       /\ tTook # 0 => tPost # "none"

C6_KilledAfterFailedPost ==
    /\ tPc = "done" /\ tPort # 0 /\ tPost = "conn_failed" /\ tTook # 0
    /\ tTrace = <<"post", "sleep", "take", "kill", "reset">>

\* C7: stop_backend never fails: for every outcome of the POST and of the kill,
\* every call runs to completion, and it ends with port 0, no handle stored and
\* the mutex released.
C7_StopNeverFails ==
    /\ (tPc = "read") ~> (tPc = "done")
    /\ [][StopReturns => (BACKEND_PORT' = 0 /\ BACKEND_CHILD' = 0 /\ lock' = "free"
                          /\ tTrace'[Len(tTrace')] = "reset")]_vars

C7_StoppedDespiteFailures ==
    /\ tPc = "done" /\ tPost = "timeout" /\ tKill = "err" /\ tTook # 0
    /\ BACKEND_PORT = 0 /\ BACKEND_CHILD = 0

\* C8: when the readiness probe times out, start_backend returns the error with
\* the handle it stored still stored and the child untouched, and the stop_backend
\* that follows takes that handle and kills it (calls do not overlap: SpecSeq).
C8_TimeoutLeavesHandle ==
    [][/\ (StartReturns /\ sRet' = "err_timeout")
            => /\ sChild # 0
               /\ BACKEND_CHILD' = sChild
               /\ UNCHANGED <<childStatus, killIssued>>
       /\ (sPc = "done" /\ sRet = "err_timeout" /\ sChild \notin killIssued
             /\ tPc = "kill" /\ tPc' # "kill")
            => /\ BACKEND_CHILD = sChild
               /\ tTook' = sChild
               /\ sChild \in killIssued'
               /\ BACKEND_CHILD' = 0]_vars

C8_TimedOutThenStopped ==
    /\ sPc = "done" /\ sRet = "err_timeout"
    /\ tPc = "done" /\ tTook = sChild /\ sChild \in killIssued
    /\ BACKEND_CHILD = 0

\* C9 as stated: every port find_available_port returns satisfies 8100 <= p < 8199.
C9_PortBelow8199 ==
    sPc = "store_port" => (8100 <= sPort /\ sPort < 8199)

\* C9 amended: every port find_available_port returns satisfies 8100 <= p <= 8199.
C9_PortInRange ==
    sPc = "store_port" => (8100 <= sPort /\ sPort <= 8199)

C9_LastPortReturned ==
    sPc = "store_port" /\ sPort = 8199

\* C10: find_available_port binds 8100, 8101, ... in ascending order without
\* retry, returns the lowest port whose bind succeeds, and returns the error
\* exactly when all 100 candidates fail, after at most 100 binds.
C10_LowestFreePort ==
    /\ Len(sTried) <= 100
    /\ \A i \in 1..Len(sTried) : sTried[i] = 8100 + (i - 1)
    /\ sPc = "store_port"
         => /\ sPort \notin occupied
            /\ sPort = sTried[Len(sTried)]
            /\ \A q \in 8100..(sPort - 1) : q \in occupied
    /\ sRet = "err_no_port"
         => /\ sPc = "done"
            /\ Len(sTried) = 100
            /\ \A q \in 8100..8199 : q \in occupied
    /\ (sPc \in {"store_port", "done"} /\ \A q \in 8100..8199 : q \in occupied)
         => sRet = "err_no_port"

C10_LowestAboveBusyPrefix ==
    /\ sPc = "store_port" /\ sPort = 8103
    /\ {8100, 8101, 8102, 8199} \subseteq occupied
    /\ sTried = <<8100, 8101, 8102, 8103>>

\* C11: wait_for_backend returns Ok only when its last GET /health got a success
\* status and the timeout error only when the deadline has elapsed; a failed
\* probe (status, connection error, request timeout) never ends the loop and is
\* followed by exactly one 250 ms sleep, so after k failed probes and one
\* successful one it returns Ok after exactly k sleeps and not before k * 250 ms.
C11_ProbeLoop ==
    /\ wRet = "ok" => /\ wPc = "done" /\ wLast = "success"
                      /\ wSleeps = wProbes - 1
                      /\ wElapsed >= wSleeps * PollMs
    /\ wRet = "err_timeout" => wPc = "done" /\ wElapsed >= TimeoutMs /\ wLast # "success"
    /\ wPc = "done" => wRet \in {"ok", "err_timeout", "err_client"}
    /\ wRet = "err_client" => wProbes = 0
    /\ wPc = "sleep" => wLast \in GetOutcomes \ {"success"} /\ wSleeps = wProbes - 1
    /\ wPc \in {"check", "get"} => wSleeps = wProbes /\ wLast # "success"

C11_OkAfterThreeFailures ==
    wRet = "ok" /\ wProbes = 4 /\ wSleeps = 3 /\ wElapsed = 3 * PollMs

\* C12 as stated: against an endpoint that always answers with a failure status
\* the timeout error comes no earlier than the deadline and no later than the
\* deadline plus one polling interval.
C12_WithinOnePoll ==
    (wRet = "err_timeout" /\ wAllStatus) =>
        (wElapsed >= TimeoutMs /\ wElapsed <= TimeoutMs + PollMs)

\* C12 amended: a call that built its client and whose probes all fail ends
\* with the timeout error, no earlier than the deadline and less than the
\* deadline plus one request timeout plus one polling interval after it began;
\* every call returns.
C12_TimeoutBounded ==
    /\ []((wPc = "done" /\ wProbes > 0 /\ wLast # "success") =>
            (/\ wRet = "err_timeout"
             /\ wElapsed >= TimeoutMs
             /\ wElapsed < TimeoutMs + GetTimeoutMs + PollMs))
    /\ [](wElapsed < TimeoutMs + GetTimeoutMs + PollMs)
    /\ (wPc = "check" /\ wProbes = 0) ~> (wPc = "done")

C12_TimedOutLate ==
    wRet = "err_timeout" /\ wAllStatus /\ wElapsed > TimeoutMs + PollMs

\* C13: backend_request decides its outcome in a fixed order: a transport
\* failure gives "Request failed"; otherwise a status outside 200..299 gives
\* "Backend error" with the status and the body text as read (empty when the
\* body cannot be read); otherwise a body that does not decode gives "Failed to
\* parse response"; otherwise Ok with the decoded body.  Ok is returned exactly
\* for a success status with a decodable body.
C13_OutcomePrecedence ==
    qResp # NoResponse =>
        LET text == to_string(qRet.err)
            arrived == qResp.transport = "ok"
            success == qResp.status \in 200..299
            decoded == qResp.readable /\ qResp.decodes
        IN /\ ~arrived => ~qRet.ok /\ text[1] = "Request failed: "
           /\ (arrived /\ ~success) =>
                 /\ ~qRet.ok
                 /\ text[1] = "Backend error ("
                 /\ text[2] = StatusText(qResp.status)
                 /\ text[4] = (IF qResp.readable THEN qResp.body ELSE "")
           /\ (arrived /\ success /\ ~decoded) =>
                 ~qRet.ok /\ text[1] = "Failed to parse response: "
           /\ (arrived /\ success /\ decoded) => qRet.ok /\ qRet.value = <<qResp.body>>
           /\ qRet.ok <=> (arrived /\ success /\ decoded)

C13_ErrorStatusBeforeDecode ==
    /\ qResp.transport = "ok" /\ qResp.status = 404
    /\ qResp.body = "kb not found" /\ qResp.readable /\ ~qResp.decodes
    /\ to_string(qRet.err) = <<"Backend error (", "404 Not Found", "): ", "kb not found", "">>

\* C14: health_check never returns Err: when its request fails it returns Ok
\* with ok = false and the non-empty failure text as error; every other command
\* returns that text as Err, and Ok when the request succeeded.
C14_HealthNeverErr ==
    qResp # NoResponse =>
        /\ qCmd = "health_check" =>
              /\ qOut.kind # "Err"
              /\ ~qRet.ok => /\ qOut.kind = "OkDown"
                             /\ qOut.error = to_string(qRet.err)
                             /\ \E i \in DOMAIN qOut.error : qOut.error[i] # ""
        /\ qCmd # "health_check" =>
              /\ ~qRet.ok => qOut.kind = "Err" /\ qOut.error = to_string(qRet.err)
              /\ qRet.ok => qOut.kind = "Ok"

C14_HealthDownReported ==
    /\ qCmd = "health_check" /\ qResp.transport = "connect"
    /\ qOut.kind = "OkDown"
    /\ qOut.error = <<"Request failed: ", "connect", "">>

C16_NoPortNoEffect ==
    /\ []((sPc = "find" \/ sRet = "err_no_port") =>
            (/\ sPort = 0 /\ sChild = 0 /\ sProbed = 0 /\ ~sSlept
             /\ childStatus[sCalls] = "none" /\ BACKEND_CHILD # sCalls))
    /\ [](sRet = "err_no_port" =>
            (sPc = "done" /\ sScan = PortEnd /\ Len(sTried) = PortEnd - PortFirst))
    /\ []((sScan = PortEnd /\ sPc # "find") => sRet = "err_no_port")
    /\ [][(sPc = "find" /\ startVars' # startVars) =>
            UNCHANGED <<BACKEND_PORT, BACKEND_CHILD, lock, childVars, logVars>>]_vars

C16_NoPortReturned ==
    /\ sRet = "err_no_port" /\ sPc = "done"
    /\ BACKEND_PORT = 0 /\ BACKEND_CHILD = 0
    /\ \A c \in Children : childStatus[c] = "none"

\* C17 as stated: a proxied call issued and answered before start_backend has
\* returned never returns Ok.
C17_EarlyCallNeverOk ==
    (rPc = "done" /\ rEarly /\ sPc # "done") => ~rRet.ok

\* C18: when the launch fails, in either strategy, start_backend returns that
\* error at once: this call stores no handle, starts no log task and sends no
\* probe; only a call whose child was launched reaches the handle store and
\* the probe.
C18_LaunchFailure ==
    /\ sRet \in {"err_spawn", "err_sidecar"} =>
          /\ sPc = "done" /\ sChild = 0 /\ sProbed = 0 /\ ~sSlept
          /\ childStatus[sCalls] = "none" /\ logState[sCalls] = "none"
          /\ BACKEND_CHILD # sCalls
    /\ sRet = "err_sidecar" => ~debug_assertions
    /\ sPc \in {"lock", "store_child", "probe_check", "probe_get", "probe_sleep",
                "return_ok"} => sChild = sCalls /\ childStatus[sCalls] # "none"

C18_SpawnFailed ==
    sRet = "err_spawn" /\ debug_assertions /\ BACKEND_CHILD = 0 /\ BACKEND_PORT = sPort

\* C19: only start_backend (port store, handle store) and stop_backend (take,
\* port reset) change the stored port or handle; a proxied call, a step of the
\* readiness probe, a step of the log task and the exit of a child change neither.
C19_OnlyStartStopWrite ==
    [][/\ (BACKEND_PORT' # BACKEND_PORT \/ BACKEND_CHILD' # BACKEND_CHILD) =>
             \/ sPc \in {"store_port", "store_child"} /\ sPc' # sPc
             \/ tPc \in {"kill", "store"} /\ tPc' # tPc
       /\ (\/ reqVars' # reqVars
           \/ logVars' # logVars
           \/ sPc \in {"probe_check", "probe_get", "probe_sleep"} /\ sPc' # sPc
           \/ \E c \in Children : childStatus[c] \in Running /\ childStatus'[c] = "exited")
             => UNCHANGED <<BACKEND_PORT, BACKEND_CHILD>>]_vars

C19_ExitedChildStillStored ==
    \E c \in ready :
        /\ childStatus[c] = "exited" /\ logState[c] = "ended" /\ logLast = "Terminated"
        /\ BACKEND_CHILD = c /\ BACKEND_PORT = childPort[c]
        /\ sRet = "ok" /\ rPc = "done" /\ ~rRet.ok

\* C20: every GET /health of a start_backend call goes to the port its own
\* find_available_port returned, which is also the --port its child was given,
\* whatever BACKEND_PORT holds by then.
C20_ProbeTargetsOwnPort ==
    /\ (sPc \in {"probe_sleep", "return_ok"} \/ sSlept \/ sRet \in {"ok", "err_timeout"}) =>
          /\ sProbed = sPort /\ sPort # 0
          /\ sPort = sTried[Len(sTried)]
          /\ childPort[sCalls] = sPort
    /\ sProbed \in {0, sPort}

C20_ProbedAfterPortReset ==
    sPc = "probe_sleep" /\ sProbed = sPort /\ tPc = "done" /\ BACKEND_PORT = 0

\* The steps of a stop_backend call that read port 0, in order.
StopStepsNoPort(took) ==
    <<"take">> \o (IF took # 0 THEN <<"kill">> ELSE <<>>) \o <<"reset">>

\* C21: a stop_backend call that read port 0 sends no POST and does not sleep:
\* it goes straight to the mutex, takes and kills whatever handle is stored
\* there, and stores port 0.
C21_StopWithPortZero ==
    /\ []((tPc \notin {"idle", "read"} /\ tPort = 0) =>
            (/\ tPost = "none"
             /\ tPc \in {"lock", "kill", "store", "done"}
             /\ tPc \in {"lock", "kill"} => tTrace = <<>>
             /\ tPc = "store" => tTrace = SubSeq(StopStepsNoPort(tTook), 1, Len(tTrace))
             /\ tPc = "done" => tTrace = StopStepsNoPort(tTook)))
    /\ [][(tPc = "kill" /\ tPc' = "store" /\ tPort = 0) =>
             (/\ tTook' = BACKEND_CHILD /\ BACKEND_CHILD' = 0
              /\ BACKEND_CHILD # 0 => (BACKEND_CHILD \in killIssued' /\ tKill' # "none"))]_vars
    /\ [][(StopReturns /\ tPort = 0) => BACKEND_PORT' = 0]_vars

C21_KilledWithoutPost ==
    /\ tPc = "done" /\ tPort = 0 /\ tPost = "none"
    /\ tTook # 0 /\ tKill = "ok" /\ childStatus[tTook] = "killed"
    /\ tTrace = <<"take", "kill", "reset">>
    /\ BACKEND_PORT = 0 /\ BACKEND_CHILD = 0

\* C22: only the production launch starts a log task.  The task goes on
\* consuming after a Stdout or Stderr event (and after any event of the
\* catch-all arm), and ends at the first Terminated or Error event or when the
\* stream closes; once ended it consumes nothing more.  A step of the task,
\* its last one included, changes nothing of start_backend, of stop_backend,
\* of the stored port and handle or of the child.
C22_LogTask ==
    /\ [](debug_assertions => \A c \in Children : logState[c] = "none")
    /\ []((\E c \in Children : logState[c] = "consuming") => ENABLED log_recv)
    /\ [][\A c \in Children :
            /\ logState[c] = "ended" => (logState'[c] = "ended" /\ logLast' = logLast)
            /\ (logState[c] = "consuming" /\ logVars' # logVars) =>
                  /\ logLast' \in {"Stdout", "Stderr", "Other"} => logState'[c] = "consuming"
                  /\ logLast' \in {"Terminated", "Error", "Closed"} => logState'[c] = "ended"
                  /\ logLast' \in LogEvents
                  /\ UNCHANGED lifeVars]_vars

C22_StartedAfterLogTaskEnded ==
    /\ logState[1] = "ended" /\ logLast = "Error"
    /\ childStatus[1] = "listening" /\ sRet = "ok" /\ tCalls = 0

\* C23: start_backend has no guard against re-entry.  Whatever is stored, a
\* further call can be made; it stores its own port over the stored one, spawns
\* a child of its own beside the earlier ones and stores its handle over the
\* stored one (the handle it replaces is dropped, which ends a dev child and
\* leaves a sidecar running).  One handle at most is stored, and stop_backend
\* takes and kills that one only: no other child is touched by it.
C23_ReentryOverwrites ==
    /\ [](BACKEND_CHILD \in {0} \cup Children)
    /\ []((StartIdle /\ StopIdle /\ sCalls + tCalls < MaxCalls) =>
            ENABLED start_backend_call_seq)
    /\ [][/\ (sPc = "store_port" /\ sPc' # sPc) => BACKEND_PORT' = sPort
          /\ (sPc = "spawn" /\ sPc' = "lock") =>
                /\ childStatus[sCalls] = "none" /\ childStatus'[sCalls] = "spawned"
                /\ \A d \in Children \ {sCalls} : childStatus'[d] = childStatus[d]
          /\ (sPc = "store_child" /\ sPc' # sPc) =>
                /\ sChild = sCalls /\ BACKEND_CHILD' = sChild
                /\ killIssued' = killIssued
                /\ \A d \in Children \ {BACKEND_CHILD} : childStatus'[d] = childStatus[d]
                /\ BACKEND_CHILD # 0 =>
                      childStatus'[BACKEND_CHILD] =
                          IF debug_assertions /\ childStatus[BACKEND_CHILD] \in Running
                          THEN "killed" ELSE childStatus[BACKEND_CHILD]
          /\ (tPc = "kill" /\ tPc' # tPc) =>
                /\ tTook' = BACKEND_CHILD /\ BACKEND_CHILD' = 0
                /\ killIssued' \ killIssued \subseteq {BACKEND_CHILD}
                /\ \A d \in Children \ {BACKEND_CHILD} : childStatus'[d] = childStatus[d]]_vars

C23_FirstSidecarLeftRunning ==
    /\ ~debug_assertions /\ sCalls = 2 /\ sRet = "ok" /\ tPc = "done"
    /\ childPort[1] = PortFirst /\ childPort[2] = PortFirst + 1
    /\ childStatus[1] = "listening" /\ childStatus[2] = "killed"
    /\ killIssued = {2} /\ tTook = 2
    /\ BACKEND_PORT = 0 /\ BACKEND_CHILD = 0

====
